---- MODULE Spec2Model ----
(***************************************************************************)
(* A model of krperry/mediaAI: the TuneIn directory client and stream      *)
(* resolver (src/tunein_api.py) and the playback session of the player     *)
(* window (src/mediaAI.py).                                                *)
(*                                                                         *)
(* Text is a sequence of Unicode code points, bytes are a sequence of      *)
(* numbers 0..255.  Volumes are in hundredths (50 is 0.5), playback rates  *)
(* in tenths (10 is 1.0).                                                  *)
(***************************************************************************)
EXTENDS Integers, Sequences, FiniteSets, TLC

(***************************************************************************)
(* Bounds of the model.                                                    *)
(***************************************************************************)
\* the resolver's inputs are concatenations of at most MaxPieces pieces
MaxPieces == 5
\* a search response holds at most MaxOutlines <outline> elements
MaxOutlines == 3

(***************************************************************************)
(* Text helpers (Python str/bytes semantics).                              *)
(***************************************************************************)
\* "#EXTM3U"
M3UMarker == <<35, 69, 88, 84, 77, 51, 85>>
\* "[playlist]"
PLSMarker == <<91, 112, 108, 97, 121, 108, 105, 115, 116, 93>>
\* "File1="
File1Prefix == <<70, 105, 108, 101, 49, 61>>
\* "#"
CommentPrefix == <<35>>
\* "="
EqualsSign == <<61>>

\* s.startswith(p)
StartsWith(s, p) ==
  /\ Len(p) <= Len(s)
  /\ \A i \in 1..Len(p) : s[i] = p[i]

\* p in s
Contains(s, p) ==
  \E k \in 0..(Len(s) - Len(p)) : \A i \in 1..Len(p) : s[k + i] = p[i]

\* the code points str.splitlines() breaks a line at:
\* \n \v \f \r \x1c \x1d \x1e \x85       (\r\n is one break)
LineBreaks == {10, 11, 12, 13, 28, 29, 30, 133, 8232, 8233}

RECURSIVE SplitFrom(_, _, _)
SplitFrom(s, i, cur) ==
  IF i > Len(s)
    THEN (IF cur = <<>> THEN <<>> ELSE <<cur>>)
    ELSE IF s[i] \in LineBreaks
      THEN LET skip == IF s[i] = 13 /\ i < Len(s) /\ s[i + 1] = 10 THEN 2 ELSE 1
           IN  <<cur>> \o SplitFrom(s, i + skip, <<>>)
      ELSE SplitFrom(s, i + 1, Append(cur, s[i]))

\* s.splitlines(): the lines of s without their line breaks; no empty last line
SplitLines(s) == SplitFrom(s, 1, <<>>)

\* line.split(sep): a split at every occurrence of sep
RECURSIVE SplitEvery(_, _)
SplitEvery(s, sep) ==
  IF Contains(s, sep)
    THEN LET k == CHOOSE k \in 0..(Len(s) - Len(sep)) :
                    /\ \A i \in 1..Len(sep) : s[k + i] = sep[i]
                    /\ \A j \in 0..(k - 1) : \E i \in 1..Len(sep) : s[j + i] # sep[i]
         IN  <<SubSeq(s, 1, k)>>
             \o SplitEvery(SubSeq(s, k + Len(sep) + 1, Len(s)), sep)
    ELSE <<s>>

\* line.split(sep, 1): at most one split, at the first occurrence of sep
SplitOnce(s, sep) ==
  IF Contains(s, sep)
    THEN LET k == CHOOSE k \in 0..(Len(s) - Len(sep)) :
                    /\ \A i \in 1..Len(sep) : s[k + i] = sep[i]
                    /\ \A j \in 0..(k - 1) : \E i \in 1..Len(sep) : s[j + i] # sep[i]
         IN  <<SubSeq(s, 1, k), SubSeq(s, k + Len(sep) + 1, Len(s))>>
    ELSE <<s>>

\* a continuation byte 10xxxxxx
IsCont(b) == b >= 128 /\ b <= 191

\* bytes.decode('utf-8') from position i: the code points, or <<-1>> at the end
\* of what was decoded when a byte sequence is invalid (UnicodeDecodeError)
RECURSIVE DecodeFrom(_, _)
DecodeFrom(b, i) ==
  IF i > Len(b) THEN <<>>
  ELSE IF b[i] < 128 THEN <<b[i]>> \o DecodeFrom(b, i + 1)
  ELSE IF /\ b[i] >= 194 /\ b[i] <= 223
          /\ i + 1 <= Len(b) /\ IsCont(b[i + 1])
    THEN <<(b[i] - 192) * 64 + (b[i + 1] - 128)>> \o DecodeFrom(b, i + 2)
  ELSE IF /\ b[i] >= 224 /\ b[i] <= 239
          /\ i + 2 <= Len(b) /\ IsCont(b[i + 1]) /\ IsCont(b[i + 2])
          /\ (b[i] = 224 => b[i + 1] >= 160)
          /\ (b[i] = 237 => b[i + 1] <= 159)
    THEN <<(b[i] - 224) * 4096 + (b[i + 1] - 128) * 64 + (b[i + 2] - 128)>>
         \o DecodeFrom(b, i + 3)
  ELSE IF /\ b[i] >= 240 /\ b[i] <= 244
          /\ i + 3 <= Len(b)
          /\ IsCont(b[i + 1]) /\ IsCont(b[i + 2]) /\ IsCont(b[i + 3])
          /\ (b[i] = 240 => b[i + 1] >= 144)
          /\ (b[i] = 244 => b[i + 1] <= 143)
    THEN <<(b[i] - 240) * 262144 + (b[i + 1] - 128) * 4096
           + (b[i + 2] - 128) * 64 + (b[i + 3] - 128)>>
         \o DecodeFrom(b, i + 4)
  ELSE <<-1>>

\* content.decode('utf-8'): [raised |-> TRUE] stands for UnicodeDecodeError
Decode(b) ==
  LET cps == DecodeFrom(b, 1)
  IN  IF \E i \in 1..Len(cps) : cps[i] = -1
        THEN [raised |-> TRUE, value |-> <<>>]
        ELSE [raised |-> FALSE, value |-> cps]

\* the UTF-8 bytes of one code point
EncodeCodePoint(c) ==
  IF c < 128 THEN <<c>>
  ELSE IF c < 2048 THEN <<192 + (c \div 64), 128 + (c % 64)>>
  ELSE IF c < 65536
    THEN <<224 + (c \div 4096), 128 + ((c \div 64) % 64), 128 + (c % 64)>>
  ELSE <<240 + (c \div 262144), 128 + ((c \div 4096) % 64),
         128 + ((c \div 64) % 64), 128 + (c % 64)>>

\* s.encode('utf-8')
RECURSIVE Encode(_)
Encode(s) ==
  IF s = <<>> THEN <<>> ELSE EncodeCodePoint(Head(s)) \o Encode(Tail(s))

(***************************************************************************)
(* TuneInAPI.resolve_stream_url                                            *)
(***************************************************************************)
\* the test without its comment check
IsM3UEntryAnyNonEmpty(line) == line # <<>>

\* for line in lines: if line and not line.startswith("#"): return line
IsM3UEntry(line) == line # <<>> /\ ~StartsWith(line, CommentPrefix)

\* for line in lines: if line.startswith("File1="): return ...
IsFile1Line(line) == StartsWith(line, File1Prefix)

\* the index of the first M3U entry line, 0 when the loop ends without one
FirstM3UEntry(lines) ==
  IF \E i \in 1..Len(lines) : IsM3UEntry(lines[i])
    THEN CHOOSE i \in 1..Len(lines) :
           /\ IsM3UEntry(lines[i])
           /\ \A j \in 1..(i - 1) : ~IsM3UEntry(lines[j])
    ELSE 0

\* the index of the first File1= line, 0 when the loop ends without one
FirstFile1Line(lines) ==
  IF \E i \in 1..Len(lines) : IsFile1Line(lines[i])
    THEN CHOOSE i \in 1..Len(lines) :
           /\ IsFile1Line(lines[i])
           /\ \A j \in 1..(i - 1) : ~IsFile1Line(lines[j])
    ELSE 0

\* resolve_stream_url whose loops, ending without a match, return nothing
ResolveTextNoFallThrough(content_str) ==
  LET lines == SplitLines(content_str)
  IN  IF StartsWith(content_str, M3UMarker)
        THEN IF FirstM3UEntry(lines) # 0
               THEN lines[FirstM3UEntry(lines)]
               ELSE <<>>
        ELSE IF StartsWith(content_str, PLSMarker)
          THEN IF FirstFile1Line(lines) # 0
                 THEN SplitOnce(lines[FirstFile1Line(lines)], EqualsSign)[2]
                 ELSE <<>>
          ELSE content_str

\* resolve_stream_url that looks for File1= whatever the text begins with
ResolveTextNoPlsHeader(content_str) ==
  LET lines == SplitLines(content_str)
  IN  IF StartsWith(content_str, M3UMarker)
        THEN IF FirstM3UEntry(lines) # 0
               THEN lines[FirstM3UEntry(lines)]
               ELSE content_str
        ELSE IF FirstFile1Line(lines) # 0
          THEN SplitOnce(lines[FirstFile1Line(lines)], EqualsSign)[2]
          ELSE content_str

\* resolve_stream_url on decoded text
ResolveText(content_str) ==
  LET lines == SplitLines(content_str)
  IN  IF StartsWith(content_str, M3UMarker)
        THEN IF FirstM3UEntry(lines) # 0
               THEN lines[FirstM3UEntry(lines)]
               ELSE content_str
        ELSE IF StartsWith(content_str, PLSMarker)
          THEN IF FirstFile1Line(lines) # 0
                 THEN SplitOnce(lines[FirstFile1Line(lines)], EqualsSign)[2]
                 ELSE content_str
          ELSE content_str

\* resolve_stream_url(content): [raised |-> TRUE] when decoding raises
ResolveStreamUrl(content) ==
  LET d == Decode(content)
  IN  IF d.raised
        THEN [raised |-> TRUE, value |-> <<>>]
        ELSE [raised |-> FALSE, value |-> ResolveText(d.value)]

(***************************************************************************)
(* TuneInAPI.search_stations and parse_xml.                                *)
(*                                                                         *)
(* A response of requests.get is [kind, status, ...]: kind "neterror" is   *)
(* a request that raised (a requests.RequestException), kind "http" one    *)
(* that returned.  A search body is well-formed XML or not, and holds      *)
(* <outline> elements.                                                     *)
(***************************************************************************)
\* the k-th <outline> of the modelled directory: a link first, then stations
Outline(k) ==
  IF k = 1
    THEN [type |-> "link", text |-> "L", URL |-> "ul"]
    ELSE [type |-> "audio", text |-> <<"A", "B", "C", "D">>[k - 1],
          URL |-> <<"ua", "ub", "uc", "ud">>[k - 1]]

\* a search is answered by an exception, an error status, a body that is no
\* XML, or the first n outlines of the directory
SearchResponses ==
  { [kind |-> "neterror", status |-> 0, wellformed |-> FALSE, outlines |-> <<>>],
    [kind |-> "http", status |-> 500, wellformed |-> FALSE, outlines |-> <<>>],
    [kind |-> "http", status |-> 200, wellformed |-> FALSE, outlines |-> <<>>] }
  \cup
  { [kind |-> "http", status |-> 200, wellformed |-> TRUE,
     outlines |-> [k \in 1..n |-> Outline(k)]] : n \in 0..MaxOutlines }

\* response.raise_for_status() raises for a status of 400 to 599
RaisesForStatus(status) == status >= 400 /\ status < 600

\* the elements of root.findall(".//outline[@type='audio']"), in document order
RECURSIVE AudioOutlines(_)
AudioOutlines(os) ==
  IF os = <<>> THEN <<>>
  ELSE IF Head(os).type = "audio"
    THEN <<[text |-> Head(os).text, URL |-> Head(os).URL]>>
         \o AudioOutlines(Tail(os))
    ELSE AudioOutlines(Tail(os))

\* parse_xml: ET.fromstring raises ParseError on a body that is not XML
ParseXml(resp) ==
  IF resp.wellformed
    THEN [raised |-> FALSE, stations |-> AudioOutlines(resp.outlines)]
    ELSE [raised |-> TRUE, stations |-> <<>>]

\* search_stations: only requests.RequestException is caught
SearchStations(resp) ==
  IF resp.kind = "neterror" \/ RaisesForStatus(resp.status)
    THEN [raised |-> FALSE, stations |-> <<>>]
    ELSE ParseXml(resp)

\* what a search was answered and what search_stations made of it
SearchLog(resp) ==
  [kind |-> IF resp.kind # "http" THEN resp.kind
            ELSE IF RaisesForStatus(resp.status) THEN "http_error"
            ELSE IF ~resp.wellformed THEN "malformed"
            ELSE "ok",
   raised |-> SearchStations(resp).raised,
   count |-> Len(SearchStations(resp).stations)]

\* get_tunein_stations: every exception of search_stations gives []
GetTuneinStations(resp) ==
  IF SearchStations(resp).raised THEN <<>> ELSE SearchStations(resp).stations

(***************************************************************************)
(* The playback session: StreamPlayer.                                     *)
(*                                                                         *)
(* The process is single-threaded and every request blocks, so a handler   *)
(* runs to its end before the next event is taken.  A handler is modelled  *)
(* as the list of the calls it still has to make (stack): a step makes the *)
(* first of them, and a call that makes a request takes one response.      *)
(***************************************************************************)
VARIABLES
  pc,                     \* where the process is: "constructed" (line 81),
                          \* "loading" (in load_settings), "loaded" (line 83),
                          \* "fetching" (lines 84 to 97), "running" (the event
                          \* loop), "crashed" (an exception left __init__)
  stack,                  \* the calls the running handler has still to make
  settings_file,          \* the content of settings.json
  volume,                 \* audio_output.volume(), in hundredths
  playback_rate,          \* player.playbackRate(), in tenths
  volume_slider,          \* volume_slider.value()
  speed_slider,           \* speed_slider.value()
  category_index,         \* category_combo_box.currentIndex()
  channel_items,          \* the items of channel_combo_box
  channel_index,          \* channel_combo_box.currentIndex(), -1 when empty
  channels,               \* self.channels (<<>> also before it is first set)
  current_channel_index,  \* self.current_channel_index
  is_playing,             \* self.is_playing
  button_text,            \* play_pause_button.text()
  source,                 \* player.source()
  player_state,           \* player.playbackState()
  error_message,          \* the text of the last error dialog, "" for none
  last_tune,              \* how the request of the last set_channel ended
  last_search,            \* the last call of search_stations
  user_channel            \* the channel the user picked in the current list

svars ==
  <<pc, stack, settings_file, volume, playback_rate, volume_slider,
    speed_slider, category_index, channel_items, channel_index, channels,
    current_channel_index, is_playing, button_text, source, player_state,
    error_message, last_tune, last_search, user_channel>>

\* category_combo_box.addItems([...])
Genres == <<"classical", "rock", "jazz", "pop", "news">>

\* the categories the user moves between, as indexes of the combo box
UserCategories == {0, 1}

\* the positions the sliders are moved to
VolumeSliderValues == {29, 50}
SpeedSliderValues == {0, 5}

\* the volumes v for which int(float32(v / 100) * 100) is v - 1 (QAudioOutput
\* keeps the volume as a 32-bit float), among 0..100
TruncatedVolumes ==
  { 1, 2, 3, 4, 6, 8, 11, 12, 13, 16, 19, 21, 22, 24, 26, 29, 32, 35, 38, 39,
    41, 42, 44, 45, 47, 48, 51, 52, 53, 57, 58, 59, 63, 64, 65, 69, 70, 71,
    76, 77, 78, 82, 83, 84, 88, 89, 90, 94, 95, 96 }

\* int(volume * 100)
IntPercent(v) == IF v \in TruncatedVolumes THEN v - 1 ELSE v

NoSource == [kind |-> "none", url |-> <<>>]
\* self.noise_url
NoiseUrl == [kind |-> "noise", url |-> <<>>]
\* QUrl(resolved_url)
StreamUrl(text) == [kind |-> "url", url |-> text]

\* the bodies a station URL answers with: a PLS playlist of "u=1" and bytes
\* that are no UTF-8
OkBodies ==
  { Encode(PLSMarker \o <<10>> \o File1Prefix \o <<117, 61, 49>>), <<255>> }

\* the body of an error page: "!"
ErrorPage == <<33>>

TuneResponses ==
  { [kind |-> "neterror", status |-> 0, content |-> <<>>],
    [kind |-> "http", status |-> 404, content |-> ErrorPage] }
  \cup { [kind |-> "http", status |-> 200, content |-> b] : b \in OkBodies }

\* the settings files a process may find
MissingFile ==
  [kind |-> "missing", volume |-> 0, playbackRate |-> 0,
   currentChannelIndex |-> 0, isPlaying |-> FALSE, currentCategory |-> ""]

\* a file that is no JSON
NotJsonFile == [MissingFile EXCEPT !.kind = "notjson"]

\* a JSON object whose "volume" is a string
BadTypeFile ==
  [kind |-> "badtype", volume |-> 0, playbackRate |-> 10,
   currentChannelIndex |-> 0, isPlaying |-> TRUE, currentCategory |-> "classical"]

JsonFile(v, r, i, p, c) ==
  [kind |-> "json", volume |-> v, playbackRate |-> r,
   currentChannelIndex |-> i, isPlaying |-> p, currentCategory |-> c]

\* no file, damaged files, and files this program wrote
StartupFiles ==
  { MissingFile, NotJsonFile, BadTypeFile }
  \cup { JsonFile(v, 10, i, p, Genres[c + 1]) :
           v \in VolumeSliderValues, i \in {0, 1},
           p \in BOOLEAN, c \in UserCategories }

\* a call still to make
Call(op) == [op |-> op, url |-> ""]

\* set_channel(url) still to make
TuneCall(url) == [op |-> "set_channel", url |-> url]

\* the program's state as one record
State ==
  [pc |-> pc, stack |-> stack, settings_file |-> settings_file,
   volume |-> volume, playback_rate |-> playback_rate,
   volume_slider |-> volume_slider, speed_slider |-> speed_slider,
   category_index |-> category_index, channel_items |-> channel_items,
   channel_index |-> channel_index, channels |-> channels,
   current_channel_index |-> current_channel_index,
   is_playing |-> is_playing, button_text |-> button_text, source |-> source,
   player_state |-> player_state, error_message |-> error_message,
   last_tune |-> last_tune, last_search |-> last_search,
   user_channel |-> user_channel]

\* the next state is the record s
Becomes(s) ==
  /\ pc' = s.pc
  /\ stack' = s.stack
  /\ settings_file' = s.settings_file
  /\ volume' = s.volume
  /\ playback_rate' = s.playback_rate
  /\ volume_slider' = s.volume_slider
  /\ speed_slider' = s.speed_slider
  /\ category_index' = s.category_index
  /\ channel_items' = s.channel_items
  /\ channel_index' = s.channel_index
  /\ channels' = s.channels
  /\ current_channel_index' = s.current_channel_index
  /\ is_playing' = s.is_playing
  /\ button_text' = s.button_text
  /\ source' = s.source
  /\ player_state' = s.player_state
  /\ error_message' = s.error_message
  /\ last_tune' = s.last_tune
  /\ last_search' = s.last_search
  /\ user_channel' = s.user_channel

\* the first call of the stack is made
Popped(s) == [s EXCEPT !.stack = Tail(@)]

\* the calls cs are made before the rest of the stack
Pushed(s, cs) == [s EXCEPT !.stack = cs \o @]

\* save_settings
SaveSettings(s) ==
  [s EXCEPT !.settings_file =
     JsonFile(s.volume, s.playback_rate, s.current_channel_index,
              s.is_playing, Genres[s.category_index + 1])]

\* player.setSource(url): the player stops and takes the new source
SetSource(s, url) == [s EXCEPT !.source = url, !.player_state = "stopped"]

\* player.play(): playback starts when there is a source
PlayerPlay(s) ==
  IF s.source = NoSource THEN s ELSE [s EXCEPT !.player_state = "playing"]

\* player.pause()
PlayerPause(s) ==
  IF s.source = NoSource THEN s ELSE [s EXCEPT !.player_state = "paused"]

\* play_noise
PlayNoise(s) == PlayerPlay(SetSource(s, NoiseUrl))

\* play
Play(s) ==
  SaveSettings([PlayerPlay(s) EXCEPT !.is_playing = TRUE,
                                     !.button_text = "Pause"])

\* pause
Pause(s) ==
  SaveSettings([PlayerPause(s) EXCEPT !.is_playing = FALSE,
                                      !.button_text = "Play"])

\* toggle_play_pause
TogglePlayPause(s) == IF s.is_playing THEN Pause(s) ELSE Play(s)

\* how the request of set_channel ended: it raised, its body is no UTF-8,
\* its status is an error, or none of these
TuneOutcome(resp) ==
  IF resp.kind = "neterror" THEN "neterror"
  ELSE IF ResolveStreamUrl(resp.content).raised THEN "undecodable"
  ELSE IF RaisesForStatus(resp.status) THEN "http_error"
  ELSE "ok"

\* set_channel: one request; an exception of requests.get or of the
\* resolver gives noise, every response that arrived is resolved
SetChannel(s, resp) ==
  [(IF resp.kind = "neterror" \/ ResolveStreamUrl(resp.content).raised
      THEN PlayNoise(s)
      ELSE SetSource(s, StreamUrl(ResolveStreamUrl(resp.content).value)))
   EXCEPT !.last_tune = TuneOutcome(resp)]

\* channel_selected(index), the combo box being at index
ChannelSelected(s) ==
  IF s.channel_index >= 0
    THEN Pushed(s, <<TuneCall(s.channel_items[s.channel_index + 1].URL),
                     Call("play_if_playing")>>)
    ELSE s

\* if self.is_playing: self.play()
PlayIfPlaying(s) == IF s.is_playing THEN Play(s) ELSE s

\* populate_channel_combo_box: clear() leaves index -1 (channel_selected(-1)
\* does nothing); the first addItem makes index 0 current, and
\* currentIndexChanged calls channel_selected(0)
PopulateChannelComboBox(s) ==
  IF s.channels = <<>>
    THEN [s EXCEPT !.channel_items = <<>>, !.channel_index = -1,
                   !.user_channel = -1]
    ELSE ChannelSelected([s EXCEPT !.channel_items = s.channels,
                                   !.channel_index = 0,
                                   !.user_channel = -1])

\* self.channels = self.get_tunein_stations(category)
FetchChannels(s, sr) ==
  [s EXCEPT !.channels = GetTuneinStations(sr), !.last_search = SearchLog(sr)]

\* category_selected(index), the combo box being at index
CategorySelected(s, index) ==
  Pushed([s EXCEPT !.category_index = index],
         <<Call("get_tunein_stations"), Call("populate_channel_combo_box"),
           Call("category_selected_rest")>>)

\* category_selected, lines 149 to 154
CategorySelectedRest(s) ==
  IF s.channels # <<>>
    THEN Pushed(s, <<TuneCall(s.channels[1].URL), Call("play_if_playing")>>)
    ELSE PlayNoise(s)

\* change_volume(value), the slider being at value
ChangeVolume(s, value) ==
  SaveSettings([s EXCEPT !.volume_slider = value, !.volume = value])

\* change_speed(value), the slider being at value
ChangeSpeed(s, value) ==
  SaveSettings([s EXCEPT !.speed_slider = value, !.playback_rate = 10 + value])

\* media_error_occurred
MediaErrorOccurred(s) == PlayNoise(s)

\* the index of genre c in the category combo box, -1 when it has no such item
FindText(c) ==
  IF \E i \in 1..Len(Genres) : Genres[i] = c
    THEN (CHOOSE i \in 1..Len(Genres) : Genres[i] = c) - 1
    ELSE -1

\* category_combo_box.setCurrentText(c): when c is another item of the box,
\* the index changes and currentIndexChanged calls category_selected
SetCurrentText(s, c) ==
  IF FindText(c) >= 0 /\ FindText(c) # s.category_index
    THEN CategorySelected(s, FindText(c))
    ELSE s

\* load_settings, lines 301 to 313, for the JSON object f
LoadSettingsFrom(s, f) ==
  LET a == [s EXCEPT !.current_channel_index = f.currentChannelIndex,
                     !.is_playing = f.isPlaying,
                     !.volume = f.volume]
      \* volume_slider.setValue(...) calls change_volume when the value changes
      b == IF IntPercent(f.volume) # a.volume_slider
             THEN ChangeVolume(a, IntPercent(f.volume))
             ELSE a
      c == [b EXCEPT !.playback_rate = f.playbackRate,
                     !.pc = "loading",
                     !.stack = <<Call("get_tunein_stations"),
                                 Call("populate_channel_combo_box"),
                                 Call("load_settings_rest")>>]
  IN  SetCurrentText(c, f.currentCategory)

\* load_settings whose default volume is 1.0 and not 0.5
LoadSettingsLoudDefault(s) ==
  LET f == s.settings_file
  IN  IF f.kind = "missing"
        THEN [s EXCEPT !.pc = "loaded", !.category_index = 0,
                       !.current_channel_index = 0, !.volume = 100,
                       !.volume_slider = 50]
      ELSE IF f.kind = "notjson"
        THEN [s EXCEPT !.pc = "crashed"]
      ELSE IF f.kind = "badtype"
        THEN [s EXCEPT !.pc = "crashed",
                       !.current_channel_index = f.currentChannelIndex,
                       !.is_playing = f.isPlaying]
      ELSE LoadSettingsFrom(s, f)

\* load_settings up to its first request: only FileNotFoundError is caught
LoadSettings(s) ==
  LET f == s.settings_file
  IN  IF f.kind = "missing"
        THEN [s EXCEPT !.pc = "loaded", !.category_index = 0,
                       !.current_channel_index = 0, !.volume = 50,
                       !.volume_slider = 50]
      ELSE IF f.kind = "notjson"
        THEN [s EXCEPT !.pc = "crashed"]
      ELSE IF f.kind = "badtype"
        THEN [s EXCEPT !.pc = "crashed",
                       !.current_channel_index = f.currentChannelIndex,
                       !.is_playing = f.isPlaying]
      ELSE LoadSettingsFrom(s, f)

\* load_settings, line 314: an index past the list raises IndexError, which
\* leaves load_settings and __init__
LoadSettingsRest(s) ==
  IF s.current_channel_index >= Len(s.channels)
    THEN [s EXCEPT !.pc = "crashed", !.stack = <<>>]
    ELSE Pushed(s, <<TuneCall(s.channels[s.current_channel_index + 1].URL),
                     Call("load_settings_end")>>)

\* load_settings, lines 316 to 321
LoadSettingsEnd(s) ==
  [(IF s.is_playing THEN Play(s) ELSE Pause(s)) EXCEPT !.pc = "loaded"]

\* show_error_message
ShowErrorMessage(s, message) == [s EXCEPT !.error_message = message]

\* __init__, lines 85 and 86
InitialFetch(s) ==
  [s EXCEPT !.pc = "fetching",
            !.stack = <<Call("get_tunein_stations"), Call("init_rest")>>]

\* __init__, lines 87 to 89: no channels raises ValueError, which line 91
\* catches
InitRest(s) ==
  IF s.channels = <<>>
    THEN [ShowErrorMessage(s, "No channels found") EXCEPT !.pc = "running"]
    ELSE Pushed(s, <<Call("populate_channel_combo_box"), Call("init_tune")>>)

\* __init__, line 90: an index past the list raises IndexError, which line
\* 91 catches
InitTune(s) ==
  IF s.current_channel_index >= Len(s.channels)
    THEN [ShowErrorMessage(s, "list index out of range") EXCEPT !.pc = "running"]
    ELSE Pushed(s, <<TuneCall(s.channels[s.current_channel_index + 1].URL),
                     Call("init_end")>>)

\* __init__, lines 94 to 97
InitEnd(s) == [s EXCEPT !.pc = "running"]

(***************************************************************************)
(* The resolver on its own: an input is drawn, resolved, and the result    *)
(* encoded and resolved again.                                             *)
(***************************************************************************)
VARIABLES rpc, content, resolved, reresolved

rvars == <<rpc, content, resolved, reresolved>>

\* the byte strings inputs are made of: the two markers (the M3U marker is
\* itself a comment prefix), the File1= prefix, "\n", "=", " " and U+0085,
\* a line break of two bytes
Pieces ==
  { Encode(M3UMarker), Encode(PLSMarker), Encode(File1Prefix), <<10>>,
    <<61>>, <<32>>, <<194, 133>> }

RECURSIVE Concat(_)
Concat(ps) == IF ps = <<>> THEN <<>> ELSE Head(ps) \o Concat(Tail(ps))

Inputs ==
  { Concat(ps) : ps \in UNION { [1..n -> Pieces] : n \in 0..MaxPieces } }

NotResolved == [raised |-> FALSE, value |-> <<>>]

InitResolver ==
  /\ rpc = "input"
  /\ content \in Inputs
  /\ resolved = NotResolved
  /\ reresolved = NotResolved

\* resolve_stream_url(content)
Resolve ==
  /\ rpc = "input"
  /\ resolved' = ResolveStreamUrl(content)
  /\ rpc' = "resolved"
  /\ UNCHANGED <<content, reresolved, svars>>

\* resolve_stream_url(encode(result))
ResolveAgain ==
  /\ rpc = "resolved"
  /\ ~resolved.raised
  /\ reresolved' = ResolveStreamUrl(Encode(resolved.value))
  /\ rpc' = "reresolved"
  /\ UNCHANGED <<content, resolved, svars>>

vars == <<svars, rvars>>

(***************************************************************************)
(* The session's initial state and steps.                                  *)
(***************************************************************************)
\* the state at line 81 of __init__, for the settings file f
SessionConstructed(f) ==
  /\ pc = "constructed"
  /\ stack = <<>>
  /\ settings_file = f
  /\ volume = 50
  /\ playback_rate = 10
  /\ volume_slider = 50
  /\ speed_slider = 0
  /\ category_index = 0
  /\ channel_items = <<>>
  /\ channel_index = -1
  /\ channels = <<>>
  /\ current_channel_index = 0
  /\ is_playing = FALSE
  /\ button_text = "Play"
  /\ source = NoSource
  /\ player_state = "stopped"
  /\ error_message = ""
  /\ last_tune = "none"
  /\ last_search = [kind |-> "none", raised |-> FALSE, count |-> 0]
  /\ user_channel = -1

\* the handler's next call is op
NextCall(op) == stack # <<>> /\ Head(stack).op = op

\* the event loop waits for an event
Idle == pc = "running" /\ stack = <<>>

\* line 82 of __init__: self.load_settings()
StartupLoadSettings ==
  /\ pc = "constructed"
  /\ Becomes(LoadSettings(State))
  /\ UNCHANGED rvars

\* line 84 of __init__
StartupInitialFetch ==
  /\ pc = "loaded"
  /\ Becomes(InitialFetch(State))
  /\ UNCHANGED rvars

\* get_tunein_stations(category), with the response to its request
DoGetTuneinStations ==
  /\ NextCall("get_tunein_stations")
  /\ \E sr \in SearchResponses : Becomes(FetchChannels(Popped(State), sr))
  /\ UNCHANGED rvars

DoPopulateChannelComboBox ==
  /\ NextCall("populate_channel_combo_box")
  /\ Becomes(PopulateChannelComboBox(Popped(State)))
  /\ UNCHANGED rvars

\* set_channel(url), with the response to its request
DoSetChannel ==
  /\ NextCall("set_channel")
  /\ \E resp \in TuneResponses : Becomes(SetChannel(Popped(State), resp))
  /\ UNCHANGED rvars

DoPlayIfPlaying ==
  /\ NextCall("play_if_playing")
  /\ Becomes(PlayIfPlaying(Popped(State)))
  /\ UNCHANGED rvars

DoCategorySelectedRest ==
  /\ NextCall("category_selected_rest")
  /\ Becomes(CategorySelectedRest(Popped(State)))
  /\ UNCHANGED rvars

DoLoadSettingsRest ==
  /\ NextCall("load_settings_rest")
  /\ Becomes(LoadSettingsRest(Popped(State)))
  /\ UNCHANGED rvars

DoLoadSettingsEnd ==
  /\ NextCall("load_settings_end")
  /\ Becomes(LoadSettingsEnd(Popped(State)))
  /\ UNCHANGED rvars

DoInitRest ==
  /\ NextCall("init_rest")
  /\ Becomes(InitRest(Popped(State)))
  /\ UNCHANGED rvars

DoInitTune ==
  /\ NextCall("init_tune")
  /\ Becomes(InitTune(Popped(State)))
  /\ UNCHANGED rvars

DoInitEnd ==
  /\ NextCall("init_end")
  /\ Becomes(InitEnd(Popped(State)))
  /\ UNCHANGED rvars

\* the user picks another category
UserSelectsCategory ==
  /\ Idle
  /\ \E index \in UserCategories \ {category_index} :
       Becomes(CategorySelected(State, index))
  /\ UNCHANGED rvars

\* the user picks another channel
UserSelectsChannel ==
  /\ Idle
  /\ \E index \in (0..(Len(channel_items) - 1)) \ {channel_index} :
       Becomes(ChannelSelected([State EXCEPT !.channel_index = index,
                                             !.user_channel = index]))
  /\ UNCHANGED rvars

\* the user clicks the play/pause button
UserClicksPlayPause ==
  /\ Idle
  /\ Becomes(TogglePlayPause(State))
  /\ UNCHANGED rvars

\* the user moves the volume slider
UserMovesVolume ==
  /\ Idle
  /\ \E value \in VolumeSliderValues \ {volume_slider} :
       Becomes(ChangeVolume(State, value))
  /\ UNCHANGED rvars

\* the user moves the speed slider
UserMovesSpeed ==
  /\ Idle
  /\ \E value \in SpeedSliderValues \ {speed_slider} :
       Becomes(ChangeSpeed(State, value))
  /\ UNCHANGED rvars

\* the player reports an error of its source
PlayerError ==
  /\ Idle
  /\ source # NoSource
  /\ Becomes(MediaErrorOccurred(State))
  /\ UNCHANGED rvars

Init ==
  /\ \E f \in StartupFiles : SessionConstructed(f)
  /\ rpc = "idle"
  /\ content = <<>>
  /\ resolved = NotResolved
  /\ reresolved = NotResolved

Next ==
  \/ StartupLoadSettings
  \/ StartupInitialFetch
  \/ DoGetTuneinStations
  \/ DoPopulateChannelComboBox
  \/ DoSetChannel
  \/ DoPlayIfPlaying
  \/ DoCategorySelectedRest
  \/ DoLoadSettingsRest
  \/ DoLoadSettingsEnd
  \/ DoInitRest
  \/ DoInitTune
  \/ DoInitEnd
  \/ UserSelectsCategory
  \/ UserSelectsChannel
  \/ UserClicksPlayPause
  \/ UserMovesVolume
  \/ UserMovesSpeed
  \/ PlayerError

Spec == Init /\ [][Next]_vars

\* the resolver alone, beside a session that has not started
InitResolve == InitResolver /\ SessionConstructed(MissingFile)

NextResolve == Resolve \/ ResolveAgain

SpecResolve == InitResolve /\ [][NextResolve]_vars

(***************************************************************************)
(* Claims about the directory client and the session, checked under Spec.  *)
(***************************************************************************)
\* C5: search_stations never raises, and returns no station when the
\* request failed or the body is no XML.
C5_SearchNeverThrows ==
  /\ ~last_search.raised
  /\ last_search.kind \in {"neterror", "http_error", "malformed"}
       => last_search.count = 0

\* C6: once a search has found no station and its handler has ended, the
\* player's source is the noise file.
C6_EmptySearchPlaysNoise ==
  ( /\ stack = <<>>
    /\ last_search.kind # "none"
    /\ channels = <<>> )
  => source = NoiseUrl

\* C7: load_settings never raises: the process is never left by an exception.
C7_LoadSettingsNeverFatal == pc # "crashed"

\* C8: with no settings file, load_settings leaves volume 0.5, rate 1.0,
\* channel index 0, not playing, and the category "classical".
C8_MissingFileDefaults ==
  (pc = "loaded" /\ settings_file.kind = "missing") =>
    /\ volume = 50
    /\ playback_rate = 10
    /\ current_channel_index = 0
    /\ ~is_playing
    /\ Genres[category_index + 1] = "classical"

\* load_settings has returned and there is no settings file
C8_Witness ==
  /\ pc = "loaded"
  /\ settings_file = MissingFile
  /\ volume = 50
  /\ category_index = 0

\* C9: while the channel the user picked stays picked, every settings file
\* written holds its index as currentChannelIndex.
C9_SavedIndexIsSelected ==
  [][ ( /\ user_channel >= 0
        /\ user_channel' = user_channel
        /\ settings_file' # settings_file )
      => settings_file'.currentChannelIndex = user_channel ]_vars

\* C10: a set_channel whose request raised, was answered with an error
\* status or with bytes the resolver cannot decode leaves the noise file
\* playing.
C10_FailedTunePlaysNoise ==
  [][ ( /\ NextCall("set_channel")
        /\ last_tune' \in {"neterror", "http_error", "undecodable"} )
      => (source' = NoiseUrl /\ player_state' = "playing") ]_vars

(***************************************************************************)
(* Claims about the resolver, checked under SpecResolve.                   *)
(***************************************************************************)
\* the decoded text of the input (of a decodable input)
ContentStr == Decode(content).value

Decodable == ~Decode(content).raised

\* a line is a comment when it begins with "#"
IsComment(line) == line # <<>> /\ line[1] = 35

\* C1: a decodable input that begins with #EXTM3U and has a line that is
\* non-empty and no comment resolves to the first such line, verbatim,
\* whatever follows it.
C1_M3UFirstEntry ==
  (rpc = "resolved" /\ Decodable /\ StartsWith(ContentStr, M3UMarker)) =>
    LET lines == SplitLines(ContentStr)
    IN  \A i \in 1..Len(lines) :
          ( /\ lines[i] # <<>> /\ ~IsComment(lines[i])
            /\ \A j \in 1..(i - 1) : lines[j] = <<>> \/ IsComment(lines[j]) )
          => resolved = [raised |-> FALSE, value |-> lines[i]]

\* an M3U input resolved to its third line, " File1=", the space kept
C1_Witness ==
  /\ rpc = "resolved" /\ Decodable /\ StartsWith(ContentStr, M3UMarker)
  /\ LET lines == SplitLines(ContentStr)
     IN  /\ Len(lines) >= 3
         /\ lines[2] = <<>>
         /\ lines[3] = <<32>> \o File1Prefix
         /\ resolved.value = lines[3]

\* C2: a decodable input that begins with [playlist] and has a line
\* beginning with File1= resolves to what follows File1= on the first such
\* line, later "=" included.
C2_PLSFile1 ==
  (rpc = "resolved" /\ Decodable /\ StartsWith(ContentStr, PLSMarker)) =>
    LET lines == SplitLines(ContentStr)
    IN  \A i \in 1..Len(lines) :
          ( /\ StartsWith(lines[i], File1Prefix)
            /\ \A j \in 1..(i - 1) : ~StartsWith(lines[j], File1Prefix) )
          => resolved = [raised |-> FALSE,
                         value |-> SubSeq(lines[i], Len(File1Prefix) + 1,
                                          Len(lines[i]))]

\* a PLS input whose File1= line goes on with " =", resolved to " ="
C2_Witness ==
  /\ rpc = "resolved" /\ Decodable /\ StartsWith(ContentStr, PLSMarker)
  /\ \E i \in 1..Len(SplitLines(ContentStr)) :
       SplitLines(ContentStr)[i] = File1Prefix \o <<32, 61>>
  /\ resolved.value = <<32, 61>>

\* no line of the text is picked by the rule its first characters select
NoRuleYieldsALine(text) ==
  LET lines == SplitLines(text)
  IN  IF StartsWith(text, M3UMarker)
        THEN \A i \in 1..Len(lines) : lines[i] = <<>> \/ IsComment(lines[i])
        ELSE IF StartsWith(text, PLSMarker)
          THEN \A i \in 1..Len(lines) : ~StartsWith(lines[i], File1Prefix)
          ELSE TRUE

\* C3: a decodable input resolves to its whole decoded text when it begins
\* with neither marker, and when it begins with one but has no line the
\* marker's rule picks.
C3_PassThrough ==
  (rpc = "resolved" /\ Decodable /\ NoRuleYieldsALine(ContentStr)) =>
    resolved = [raised |-> FALSE, value |-> ContentStr]

\* a PLS input of several lines, none beginning with File1=, resolved to
\* the whole text
C3_Witness ==
  /\ rpc = "resolved" /\ Decodable /\ StartsWith(ContentStr, PLSMarker)
  /\ Len(SplitLines(ContentStr)) >= 3
  /\ \A i \in 1..Len(SplitLines(ContentStr)) :
       ~StartsWith(SplitLines(ContentStr)[i], File1Prefix)
  /\ Contains(ContentStr, File1Prefix)
  /\ resolved.value = ContentStr

\* C4: resolving the encoded result again gives the same result when that
\* result holds neither marker.
C4_Idempotent ==
  ( /\ rpc = "reresolved"
    /\ ~Contains(resolved.value, M3UMarker)
    /\ ~Contains(resolved.value, PLSMarker) )
  => reresolved = resolved

\* a PLS input resolved to a text that itself begins with File1=, and that
\* resolves to itself
C4_Witness ==
  /\ rpc = "reresolved"
  /\ StartsWith(ContentStr, PLSMarker)
  /\ StartsWith(resolved.value, File1Prefix)
  /\ resolved.value # ContentStr
  /\ reresolved = resolved

====
